---- MODULE Spec2Model ----
(***************************************************************************)
(* Model of scripts/generate-zh-readme.py: the description cache           *)
(* (_load_cache / _save_cache), the batching translator                    *)
(* (translate_descriptions), the line classifier and transformer           *)
(* (translate_readme) and the driver (main).                               *)
(*                                                                         *)
(* Three specifications share the variables:                               *)
(*   Spec      runs of main() against the cache file and the external      *)
(*             translator (an oracle choosing every call's outcome);       *)
(*   SpecBatch the batch partition loop of translate_descriptions applied  *)
(*             to every bounded list of cache misses;                      *)
(*   SpecDoc   the per-line loop of translate_readme over every bounded    *)
(*             document.                                                   *)
(***************************************************************************)
EXTENDS Integers, Sequences, FiniteSets, TLC

VARIABLES
    readme,             \* README.md: the sequence of input lines
    file,               \* scripts/.zh-desc-cache.json on disk
    zh_readme,          \* README_zh.md on disk ("none" until written)
    pc,                 \* position of the running process
    run,                \* number of the current invocation of main()
    skip_desc,          \* main: "--no-translate-desc" given
    cache,              \* translate_descriptions: the in-memory cache
    loaded,             \* what _load_cache returned in this run (history)
    batches,            \* translate_descriptions: the batches of this run
    i,                  \* translate_descriptions: index of the next batch
    calls,              \* external calls issued in this run (history)
    desc_translations,  \* main: the mapping handed to translate_readme
    persisted,          \* the mapping the last completed save wrote (history)
    prev,               \* how the previous invocation ended (history)
    part,               \* SpecBatch: state of the partition loop
    tr                  \* SpecDoc: state of the translate_readme loop

vars == << readme, file, zh_readme, pc, run, skip_desc, cache, loaded, batches,
           i, calls, desc_translations, persisted, prev, part, tr >>

----------------------------------------------------------------------------
(* Bounds of the model *)

MaxLines == 2       \* Spec: lines of README.md
MaxRuns == 2        \* Spec: invocations of main() in a row
MaxDescs == 3       \* SpecBatch: length of the list of cache misses
MaxDocLines == 3    \* SpecDoc: lines of the document
MaxCells == 2       \* SpecToc: cells of the table row
MaxPatches == 3     \* SpecPatch: invocations with --patch-readme in a row

----------------------------------------------------------------------------
(* Descriptions.  A description is a string; len(desc) is given by a table  *)
(* whose values sit on both sides of the budget: "a"+"b" fill a batch to   *)
(* exactly 4000, "a"+"d" reach 4001, "e" alone reaches 4000 and "c" alone  *)
(* reaches 4001.                                                           *)

MAX_CHARS_PER_BATCH == 4000

Descs == {"a", "b", "c", "d", "e"}

DescLen(d) ==
    CASE d = "a" -> 1499
      [] d = "b" -> 2499
      [] d = "c" -> 4000
      [] d = "d" -> 2500
      [] d = "e" -> 3999

EmptyMap == [d \in {} |-> ""]

Put(m, k, v) == [x \in (DOMAIN m) \cup {k} |-> IF x = k THEN v ELSE m[x]]

Range(s) == {s[k] : k \in DOMAIN s}

\* the sequences of length <= n without repetition over S
DistinctSeqs(S, n) ==
    {s \in UNION {[1..k -> S] : k \in 0..n} :
        \A p, q \in DOMAIN s : p # q => s[p] # s[q]}

----------------------------------------------------------------------------
(* translate_descriptions, lines 73-86: group the misses into batches       *)

PartInit == [batches |-> <<>>, batch |-> <<>>, batch_len |-> 0]

\* the mutant: the separator is not counted when testing the budget
BatchStepNoSeparator(st, desc) ==
    LET added_len == DescLen(desc) + 1
        flush == st.batch_len + DescLen(desc) > MAX_CHARS_PER_BATCH /\ st.batch # <<>>
        s1 == IF flush
              THEN [batches |-> Append(st.batches, st.batch), batch |-> <<>>, batch_len |-> 0]
              ELSE st
    IN  [batches |-> s1.batches,
         batch |-> Append(s1.batch, desc),
         batch_len |-> s1.batch_len + added_len]

\* one iteration of "for desc in new_descs"
BatchStep(st, desc) ==
    LET added_len == DescLen(desc) + 1
        flush == st.batch_len + added_len > MAX_CHARS_PER_BATCH /\ st.batch # <<>>
        s1 == IF flush
              THEN [batches |-> Append(st.batches, st.batch), batch |-> <<>>, batch_len |-> 0]
              ELSE st
    IN  [batches |-> s1.batches,
         batch |-> Append(s1.batch, desc),
         batch_len |-> s1.batch_len + added_len]

\* "if batch: batches.append(batch)"
BatchFlush(st) ==
    IF st.batch # <<>> THEN Append(st.batches, st.batch) ELSE st.batches

RECURSIVE BatchLoop(_, _, _)
BatchLoop(st, new_descs, k) ==
    IF k > Len(new_descs) THEN st
    ELSE BatchLoop(BatchStep(st, new_descs[k]), new_descs, k + 1)

MakeBatches(new_descs) == BatchFlush(BatchLoop(PartInit, new_descs, 1))

----------------------------------------------------------------------------------------------------------------------------------------
(* Lines.  A line is a record [k, a, b, cells, nl]: k is the class the      *)
(* patterns of the source put the text in, a and b are the parts the       *)
(* patterns capture, cells are the cells of a table row (what split("|")   *)
(* gives between the outer bars) and nl is the line terminator that        *)
(* splitlines(keepends=True) keeps.  Chinese replacement texts are written *)
(* in ASCII.                                                               *)

L(k, a, b) == [k |-> k, a |-> a, b |-> b, cells |-> <<>>, nl |-> "\n"]

\* line.rstrip("\n"); also the last line of a file that ends without "\n"
Stripped(line) == [line EXCEPT !.nl = ""]

SameText(x, y) == Stripped(x) = Stripped(y)

\* text + "\n"
Terminated(line) == [line EXCEPT !.nl = "\n"]

\* a cell lead "[name](anchor)" gap "(count)" rest: lead and gap are white space
TocCell(lead, name, anchor, gap, count, rest) ==
    [form |-> "toc", lead |-> lead, name |-> name, anchor |-> anchor, gap |-> gap,
     count |-> count, rest |-> rest]

\* any other cell text
OtherCell(text) ==
    [form |-> "other", lead |-> "", name |-> text, anchor |-> "", gap |-> "",
     count |-> "", rest |-> ""]

Row(cells) == [k |-> "row", a |-> "", b |-> "", cells |-> cells, nl |-> "\n"]

Fence == L("fence", "<3 backquotes>", "")              \* startswith(3 backquotes)
LANG_SWITCHER == L("switcher", "[English](README.md) | [Zhongwen](README_zh.md)", "")
Skill(d) == L("skill", "- [n](u)", d)                  \* SKILL_RE: "- [n](u) - d"
Dash == L("dash", "- [ ] todo", "")                    \* "- [" without SKILL_RE
TocHeading == L("heading", "## Table of Contents", "")
H2Heading == L("heading", "## Installation", "")
H1Heading == L("heading", "# Awesome OpenClaw Skills", "")
\* "| [Gaming](#gaming) (12) |"
TocRow == Row(<<TocCell(" ", "Gaming", "#gaming", " ", "12", " ")>>)
SepRow == Row(<<OtherCell("---")>>)                    \* "|---|"
\* "| Location | Path |", a PARAGRAPH_PATTERNS row
FixedRow == Row(<<OtherCell(" Location "), OtherCell(" Path ")>>)
Tag == L("tag", "<details>", "")                       \* startswith("<")
SummaryLine(name) == L("summary", name, "")            \* SUMMARY_RE with its name
Summary == SummaryLine("Gaming")
Para == L("para", "Priority: Workspace > Local > Bundled", "")
Empty == L("empty", "", "")
Text == L("text", "hello", "")

IsFence(line) == line.k = "fence"
IsSwitcher(line) == SameText(line, LANG_SWITCHER)
StartsDashBracket(line) == line.k \in {"skill", "dash"}
SkillMatch(line) == line.k = "skill"
StartsPipe(line) == line.k = "row"
StartsTag(line) == line.k \in {"tag", "summary"}
IsEmpty(line) == line.k = "empty"
SummaryMatch(line) == line.k = "summary"
ParaMatch(line) == line.k = "para" \/ SameText(line, FixedRow)

HEADING_MAP ==
    [h \in {"# Awesome OpenClaw Skills", "## Installation", "## Table of Contents"} |->
        CASE h = "# Awesome OpenClaw Skills" -> "# Awesome OpenClaw Jineng Heji"
          [] h = "## Installation" -> "## Anzhuang"
          [] h = "## Table of Contents" -> "## Mulu"]

InHeadingMap(line) == line.k = "heading" /\ line.a \in DOMAIN HEADING_MAP
\* startswith("## ")
StartsH2(line) == SameText(line, TocHeading) \/ SameText(line, H2Heading)

CATEGORY_MAP ==
    [c \in {"Gaming", "Moltbook", "Git & GitHub"} |->
        CASE c = "Gaming" -> "Youxi"
          [] c = "Moltbook" -> "Moltbook"
          [] c = "Git & GitHub" -> "Git yu GitHub"]

\* the mutant: the dictionary is not consulted
CategoryLabelOriginal(name) == name

\* CATEGORY_MAP.get(name, name)
CategoryLabel(name) == IF name \in DOMAIN CATEGORY_MAP THEN CATEGORY_MAP[name] ELSE name

\* c.strip() is empty
CellBlank(cell) == cell.form = "other" /\ cell.name \in {"", " "}

\* the re.match of line 357 on cell.strip()
CellMatch(cell) == cell.form = "toc"

\* "---" in the text of the cell
CellHasDashes(cell) == cell.name = "---" \/ cell.anchor = "#a---b"

\* translate_toc_cell, lines 355-362
translate_toc_cell(cell) ==
    IF ~CellMatch(cell) THEN cell
    ELSE TocCell("", CategoryLabel(cell.name), cell.anchor, " ", cell.count, "")

\* translate_toc_line, lines 365-371, on the stripped line
translate_toc_line(line) ==
    IF ~StartsPipe(line) \/ (\E k \in DOMAIN line.cells : CellHasDashes(line.cells[k]))
    THEN line
    ELSE [line EXCEPT !.cells = [k \in DOMAIN line.cells |->
                                    IF CellBlank(line.cells[k]) THEN line.cells[k]
                                    ELSE translate_toc_cell(line.cells[k])]]

\* name.lower().replace(" & ", "--").replace(" ", "-")
SummaryAnchor(name) ==
    CASE name = "Gaming" -> "gaming"
      [] name = "Moltbook" -> "moltbook"
      [] name = "Git & GitHub" -> "git--github"
      [] name = "Foo & Bar" -> "foo--bar"

\* the mutant: the header keeps the name it had
translate_summaryKeepsName(line) == L("summary_zh", SummaryAnchor(line.a), line.a)

\* translate_summary, lines 381-388: the header with the id and the label
translate_summary(line) == L("summary_zh", SummaryAnchor(line.a), CategoryLabel(line.a))

\* the first matching pattern's replacement
ParaReplacement(line) == L("para_zh", line.a, "")

----------------------------------------------------------------------------
(* translate_readme, lines 393-465                                          *)

TrInit == [out |-> <<>>, in_code_block |-> FALSE, in_toc |-> FALSE]

\* the mutant: the stripped text and a fresh "\n" are appended
EmitTerminated(st, line) == [st EXCEPT !.out = Append(@, Terminated(line))]

\* out.append(line)
Emit(st, line) == [st EXCEPT !.out = Append(@, line)]

\* the mutant: every SKILL_RE line is rebuilt, with the description itself
\* when the mapping has no entry
SkillRuleRebuilds(line, translations) ==
    IF SkillMatch(line)
    THEN L("skill", line.a,
           IF line.b \in DOMAIN translations THEN translations[line.b] ELSE line.b)
    ELSE line

\* lines 416-420: the line emitted for a line that starts with "- ["
SkillRule(line, translations) ==
    IF SkillMatch(line) /\ line.b \in DOMAIN translations
    THEN L("skill", line.a, translations[line.b])
    ELSE line

\* the mutant: every table row goes to the table-of-contents rule
OutsideFenceIgnoresToc(st, line, translations) ==
    IF IsSwitcher(line)
    THEN st
    ELSE IF StartsDashBracket(line)
    THEN Emit(st, SkillRule(line, translations))
    ELSE IF InHeadingMap(line)
    THEN Emit([st EXCEPT !.in_toc = IF SameText(line, TocHeading) THEN TRUE
                                    ELSE IF StartsH2(line) THEN FALSE
                                    ELSE @],
              L("heading_zh", HEADING_MAP[line.a], ""))
    ELSE IF StartsPipe(line)
    THEN Emit(st, Terminated(translate_toc_line(Stripped(line))))
    ELSE LET s1 == IF st.in_toc /\ ~IsEmpty(line) /\ ~StartsPipe(line) /\ ~StartsTag(line)
                   THEN [st EXCEPT !.in_toc = FALSE]
                   ELSE st
         IN  IF SummaryMatch(line) THEN Emit(s1, translate_summary(line))
             ELSE IF ParaMatch(line) THEN Emit(s1, ParaReplacement(line))
             ELSE Emit(s1, line)

\* lines 410-463: the rules applied to a line outside a code fence
OutsideFence(st, line, translations) ==
    IF IsSwitcher(line)
    THEN st
    ELSE IF StartsDashBracket(line)
    THEN Emit(st, SkillRule(line, translations))
    ELSE IF InHeadingMap(line)
    THEN Emit([st EXCEPT !.in_toc = IF SameText(line, TocHeading) THEN TRUE
                                    ELSE IF StartsH2(line) THEN FALSE
                                    ELSE @],
              L("heading_zh", HEADING_MAP[line.a], ""))
    ELSE IF st.in_toc /\ StartsPipe(line)
    THEN Emit(st, Terminated(translate_toc_line(Stripped(line))))
    ELSE LET s1 == IF st.in_toc /\ ~IsEmpty(line) /\ ~StartsPipe(line) /\ ~StartsTag(line)
                   THEN [st EXCEPT !.in_toc = FALSE]
                   ELSE st
         IN  IF SummaryMatch(line) THEN Emit(s1, translate_summary(line))
             ELSE IF ParaMatch(line) THEN Emit(s1, ParaReplacement(line))
             ELSE Emit(s1, line)

\* the mutant: in_code_block is toggled but never consulted
LineStepIgnoresCodeBlock(st, line, translations) ==
    IF IsFence(line)
    THEN Emit([st EXCEPT !.in_code_block = ~@], line)
    ELSE OutsideFence(st, line, translations)

\* one iteration of "for line in lines", lines 398-463
LineStep(st, line, translations) ==
    IF IsFence(line)
    THEN Emit([st EXCEPT !.in_code_block = ~@], line)
    ELSE IF st.in_code_block
    THEN Emit(st, line)
    ELSE OutsideFence(st, line, translations)

RECURSIVE TrLoop(_, _, _, _)
TrLoop(st, lines, translations, k) ==
    IF k > Len(lines) THEN st
    ELSE TrLoop(LineStep(st, lines[k], translations), lines, translations, k + 1)

translate_readme(lines, translations) == TrLoop(TrInit, lines, translations, 1).out

----------------------------------------------------------------------------
(* The cache file, lines 50-59.  The file is absent, holds a JSON object    *)
(* (kind "ok": json.dumps then json.loads gives back the same str -> str   *)
(* mapping) or holds text json.loads rejects (kind "corrupt": hand-edited, *)
(* unreadable, or cut short by an interrupted write).                      *)

Absent == [kind |-> "absent", map |-> EmptyMap]
Corrupt == [kind |-> "corrupt", map |-> EmptyMap]
Ok(m) == [kind |-> "ok", map |-> m]

\* _load_cache raises: CACHE_PATH.exists() and json.loads fails
LoadRaises(f) == f.kind = "corrupt"

\* the mutant: a file that exists is not read
LoadCacheIgnoresFile(f) == EmptyMap

\* _load_cache when it returns
LoadCache(f) == IF f.kind = "ok" THEN f.map ELSE EmptyMap

\* write_text: open(path, "w") truncates the file ...
OpenForWrite(f) == Corrupt

\* the mutant: only the entries that were loaded are written back
WrittenLoadedOnly(c) == Ok([d \in DOMAIN loaded |-> c[d]])

\* ... and the whole text is written and the file closed
Written(c) == Ok(c)

----------------------------------------------------------------------------
(* The external translator: every call either raises or returns text.       *)
(* A batch answer is the sequence result.split("\n"); its length is up to  *)
(* the translator.                                                         *)

RawOut == {"zh1", " zh2 "}

\* str.strip()
Strip(s) == IF s = " zh2 " THEN "zh2" ELSE s

AlignedAnswers(b) == [1..Len(b) -> RawOut]

MisalignedAnswers(b) ==
    {[j \in 1..n |-> p] : n \in {Len(b) - 1, Len(b) + 1} \ {0}, p \in RawOut}

SingleAnswers == {"error"} \cup RawOut

BatchCall(b, res, parts) == [type |-> "batch", text |-> b, res |-> res, parts |-> parts]

SingleCall(d, r) ==
    [type |-> "single", text |-> <<d>>,
     res |-> IF r = "error" THEN "error" ELSE "ok",
     parts |-> IF r = "error" THEN <<>> ELSE <<r>>]

----------------------------------------------------------------------------
(* translate_descriptions, lines 62-124                                     *)

\* the mutant: every description counts as new
NewDescsAll(descriptions, c) == descriptions

\* the mutant: an entry whose value is its own key counts as new again
NewDescsRetriesFallbacks(descriptions, c) ==
    SelectSeq(descriptions, LAMBDA d : d \notin DOMAIN c \/ c[d] = d)

\* "[d for d in descriptions if d not in cache]"
NewDescs(descriptions, c) == SelectSeq(descriptions, LAMBDA d : d \notin DOMAIN c)

\* lines 98-99: "for en, zh in zip(b, parts): cache[en] = zh.strip()"
RECURSIVE AcceptAligned(_, _, _, _)
AcceptAligned(c, b, parts, k) ==
    IF k > Len(b) THEN c
    ELSE AcceptAligned(Put(c, b[k], Strip(parts[k])), b, parts, k + 1)

\* the mutant: the answer's segments are taken by position where there is one
RetryValuePositional(desc, k, parts, r) ==
    IF k <= Len(parts) THEN Strip(parts[k]) ELSE desc

\* lines 105-110: the value one member gets from its own call
RetryValue(desc, k, parts, r) == IF r = "error" THEN desc ELSE Strip(r)

\* lines 104-110: "for desc in b: try: cache[desc] = _google_translate(desc)..."
RECURSIVE RetryIndividually(_, _, _, _, _)
RetryIndividually(c, b, parts, singles, k) ==
    IF k > Len(b) THEN c
    ELSE RetryIndividually(Put(c, b[k], RetryValue(b[k], k, parts, singles[k])),
                           b, parts, singles, k + 1)

\* the mutant: a failed batch leaves its members out of the cache
KeepEnglishSkips(c, b, k) == c

\* lines 113-114: "for desc in b: cache[desc] = desc"
RECURSIVE KeepEnglish(_, _, _)
KeepEnglish(c, b, k) ==
    IF k > Len(b) THEN c
    ELSE KeepEnglish(Put(c, b[k], b[k]), b, k + 1)

----------------------------------------------------------------------------
(* main, lines 482-509                                                      *)

\* lines 494-502: the distinct descriptions of the lines SKILL_RE matches
RECURSIVE CollectDescs(_, _, _)
CollectDescs(lines, k, all_descs) ==
    IF k > Len(lines) THEN all_descs
    ELSE IF SkillMatch(lines[k]) /\ lines[k].b \notin Range(all_descs)
         THEN CollectDescs(lines, k + 1, Append(all_descs, lines[k].b))
         ELSE CollectDescs(lines, k + 1, all_descs)

AllDescs == CollectDescs(readme, 1, <<>>)

\* lines 507-508: the header and the translated lines
Output(translated) == <<LANG_SWITCHER, Empty>> \o translated

----------------------------------------------------------------------------
(* Spec: invocations of main()                                              *)

PartIdle == [new_descs |-> <<>>, pos |-> 0, st |-> PartInit, done |-> FALSE]
TrIdle == [lines |-> <<>>, translations |-> EmptyMap, pos |-> 0, st |-> TrInit]
NoPrev == [end |-> "none", skip |-> FALSE, saved |-> FALSE, out |-> <<>>]

\* the descriptions README.md draws on: "a"+"b" share a batch, "d" starts a new one
ReadmeDescs == {"a", "b", "d"}

ReadmeLines == {Skill(d) : d \in ReadmeDescs} \cup {Fence, Text, H2Heading}
Readmes == UNION {[1..n -> ReadmeLines] : n \in 0..MaxLines}

\* a cache file left by earlier runs holds earlier translations
InitFiles == {Absent, Corrupt} \cup {Ok([d \in S |-> "old"]) : S \in SUBSET ReadmeDescs}

Init ==
    /\ readme \in Readmes
    /\ file \in InitFiles
    /\ zh_readme = <<>>
    /\ pc = "start"
    /\ run = 1
    /\ skip_desc = FALSE
    /\ cache = EmptyMap
    /\ loaded = EmptyMap
    /\ batches = <<>>
    /\ i = 0
    /\ calls = <<>>
    /\ desc_translations = EmptyMap
    /\ persisted = file.map
    /\ prev = NoPrev
    /\ part = PartIdle
    /\ tr = TrIdle

\* the mutant: with --no-translate-desc the saved cache is still used
RunSkipLoads ==
    /\ pc = "start"
    /\ ~LoadRaises(file)
    /\ skip_desc' = TRUE
    /\ desc_translations' = LoadCache(file)
    /\ pc' = "transform"
    /\ UNCHANGED << readme, file, zh_readme, run, cache, loaded, batches, i, calls,
                    persisted, prev, part, tr >>

\* main with --no-translate-desc: translate_descriptions is not called
RunSkip ==
    /\ pc = "start"
    /\ skip_desc' = TRUE
    /\ desc_translations' = EmptyMap
    /\ pc' = "transform"
    /\ UNCHANGED << readme, file, zh_readme, run, cache, loaded, batches, i, calls,
                    persisted, prev, part, tr >>

\* line 67: _load_cache raises and the exception leaves main
LoadFails ==
    /\ pc = "start"
    /\ LoadRaises(file)
    /\ skip_desc' = FALSE
    /\ pc' = "aborted"
    /\ UNCHANGED << readme, file, zh_readme, run, cache, loaded, batches, i, calls,
                    desc_translations, persisted, prev, part, tr >>

\* lines 67-71: no description is new, the cache is returned as loaded
ReturnCached ==
    /\ pc = "start"
    /\ ~LoadRaises(file)
    /\ NewDescs(AllDescs, LoadCache(file)) = <<>>
    /\ skip_desc' = FALSE
    /\ cache' = LoadCache(file)
    /\ loaded' = LoadCache(file)
    /\ desc_translations' = LoadCache(file)
    /\ pc' = "transform"
    /\ UNCHANGED << readme, file, zh_readme, run, batches, i, calls, persisted, prev,
                    part, tr >>

\* lines 67-89: there are new descriptions, they are grouped into batches
StartBatches ==
    /\ pc = "start"
    /\ ~LoadRaises(file)
    /\ NewDescs(AllDescs, LoadCache(file)) # <<>>
    /\ skip_desc' = FALSE
    /\ cache' = LoadCache(file)
    /\ loaded' = LoadCache(file)
    /\ batches' = MakeBatches(NewDescs(AllDescs, LoadCache(file)))
    /\ i' = 1
    /\ pc' = "loop"
    /\ UNCHANGED << readme, file, zh_readme, run, calls, desc_translations, persisted,
                    prev, part, tr >>

\* the mutant: the first batch is dispatched a second time
NextBatchRepeats ==
    /\ i' = IF i = 1 /\ calls = <<>> THEN i ELSE i + 1
    /\ pc' = IF i' = Len(batches) + 1 THEN "save" ELSE "loop"
    /\ UNCHANGED << readme, file, zh_readme, run, skip_desc, loaded, batches,
                    desc_translations, persisted, prev, part, tr >>

\* the end of one iteration of "for i, b in enumerate(batches, 1)"
NextBatch ==
    /\ i' = i + 1
    /\ pc' = IF i = Len(batches) THEN "save" ELSE "loop"
    /\ UNCHANGED << readme, file, zh_readme, run, skip_desc, loaded, batches,
                    desc_translations, persisted, prev, part, tr >>

\* lines 95-100: the answer has one segment per member
BatchAligned ==
    /\ pc = "loop"
    /\ \E parts \in AlignedAnswers(batches[i]) :
          /\ cache' = AcceptAligned(cache, batches[i], parts, 1)
          /\ calls' = Append(calls, BatchCall(batches[i], "ok", parts))
    /\ NextBatch

\* lines 101-110: the segment count differs, every member gets its own call
BatchMisaligned ==
    /\ pc = "loop"
    /\ \E parts \in MisalignedAnswers(batches[i]) :
       \E singles \in [1..Len(batches[i]) -> SingleAnswers] :
          /\ cache' = RetryIndividually(cache, batches[i], parts, singles, 1)
          /\ calls' = calls \o <<BatchCall(batches[i], "ok", parts)>>
                            \o [k \in 1..Len(batches[i]) |->
                                    SingleCall(batches[i][k], singles[k])]
    /\ NextBatch

\* the mutant: a failed batch call is followed by one call per member
BatchFailedRetries ==
    /\ pc = "loop"
    /\ \E singles \in [1..Len(batches[i]) -> SingleAnswers] :
          /\ cache' = RetryIndividually(cache, batches[i], <<>>, singles, 1)
          /\ calls' = calls \o <<BatchCall(batches[i], "error", <<>>)>>
                            \o [k \in 1..Len(batches[i]) |->
                                    SingleCall(batches[i][k], singles[k])]
    /\ NextBatch

\* the mutant: the cache is saved as soon as a batch has been processed
BatchFailedSaves ==
    /\ pc = "loop"
    /\ cache' = KeepEnglish(cache, batches[i], 1)
    /\ calls' = Append(calls, BatchCall(batches[i], "error", <<>>))
    /\ file' = Written(cache')
    /\ i' = i + 1
    /\ pc' = IF i = Len(batches) THEN "save" ELSE "loop"
    /\ UNCHANGED << readme, zh_readme, run, skip_desc, loaded, batches,
                    desc_translations, persisted, prev, part, tr >>

\* lines 111-114: the batch call raises
BatchFailed ==
    /\ pc = "loop"
    /\ cache' = KeepEnglish(cache, batches[i], 1)
    /\ calls' = Append(calls, BatchCall(batches[i], "error", <<>>))
    /\ NextBatch

\* line 123, _save_cache: the file is opened for writing
SaveOpen ==
    /\ pc = "save"
    /\ file' = OpenForWrite(file)
    /\ pc' = "write"
    /\ UNCHANGED << readme, zh_readme, run, skip_desc, cache, loaded, batches, i, calls,
                    desc_translations, persisted, prev, part, tr >>

\* lines 123-124: the text is written; translate_descriptions returns cache
SaveWrite ==
    /\ pc = "write"
    /\ file' = Written(cache)
    /\ persisted' = Written(cache).map
    /\ desc_translations' = cache
    /\ pc' = "transform"
    /\ UNCHANGED << readme, zh_readme, run, skip_desc, cache, loaded, batches, i, calls,
                    prev, part, tr >>

\* lines 505-508: the document is transformed and README_zh.md written
Transform ==
    /\ pc = "transform"
    /\ zh_readme' = Output(translate_readme(readme, desc_translations))
    /\ pc' = "done"
    /\ UNCHANGED << readme, file, run, skip_desc, cache, loaded, batches, i, calls,
                    desc_translations, persisted, prev, part, tr >>

\* the process is killed
Crash ==
    /\ pc \in {"loop", "save", "write", "transform"}
    /\ pc' = "crashed"
    /\ UNCHANGED << readme, file, zh_readme, run, skip_desc, cache, loaded, batches, i,
                    calls, desc_translations, persisted, prev, part, tr >>

\* the script is invoked again on the same README.md
NextRun ==
    /\ pc \in {"done", "aborted", "crashed"}
    /\ run < MaxRuns
    /\ run' = run + 1
    /\ prev' = [end |-> pc, skip |-> skip_desc, saved |-> (pc = "done" /\ batches # <<>>),
                out |-> zh_readme]
    /\ pc' = "start"
    /\ skip_desc' = FALSE
    /\ cache' = EmptyMap
    /\ loaded' = EmptyMap
    /\ batches' = <<>>
    /\ i' = 0
    /\ calls' = <<>>
    /\ desc_translations' = EmptyMap
    /\ UNCHANGED << readme, file, zh_readme, persisted, part, tr >>

Next ==
    \/ RunSkip
    \/ LoadFails
    \/ ReturnCached
    \/ StartBatches
    \/ BatchAligned
    \/ BatchMisaligned
    \/ BatchFailed
    \/ SaveOpen
    \/ SaveWrite
    \/ Transform
    \/ Crash
    \/ NextRun

Spec == Init /\ [][Next]_vars

\* every translator call returns or raises (urlopen has a timeout) and the
\* statements after it are executed: the loop and the save go on
SpecLive ==
    /\ Init /\ [][Next]_vars
    /\ WF_vars(BatchAligned \/ BatchMisaligned \/ BatchFailed)
    /\ WF_vars(SaveOpen)
    /\ WF_vars(SaveWrite)

----------------------------------------------------------------------------
(* SpecBatch: the partition loop on every list of distinct cache misses     *)

MainIdle ==
    /\ readme = <<>>
    /\ file = Absent
    /\ zh_readme = <<>>
    /\ pc = "idle"
    /\ run = 1
    /\ skip_desc = FALSE
    /\ cache = EmptyMap
    /\ loaded = EmptyMap
    /\ batches = <<>>
    /\ i = 0
    /\ calls = <<>>
    /\ desc_translations = EmptyMap
    /\ persisted = EmptyMap
    /\ prev = NoPrev

mainVars == << readme, file, zh_readme, pc, run, skip_desc, cache, loaded, batches,
               i, calls, desc_translations, persisted, prev >>

InitBatch ==
    /\ MainIdle
    /\ tr = TrIdle
    /\ part \in {[new_descs |-> s, pos |-> 1, st |-> PartInit, done |-> FALSE] :
                    s \in DistinctSeqs(Descs, MaxDescs) \ {<<>>}}

\* lines 77-84: one description is placed
PartitionStep ==
    /\ ~part.done
    /\ part.pos <= Len(part.new_descs)
    /\ part' = [part EXCEPT !.st = BatchStep(@, part.new_descs[part.pos]),
                            !.pos = @ + 1]
    /\ UNCHANGED << mainVars, tr >>

\* lines 85-86: the last batch is appended
PartitionFinish ==
    /\ ~part.done
    /\ part.pos > Len(part.new_descs)
    /\ part' = [part EXCEPT !.st.batches = BatchFlush(part.st), !.done = TRUE]
    /\ UNCHANGED << mainVars, tr >>

NextBatchSpec ==
    \/ PartitionStep
    \/ PartitionFinish

SpecBatch == InitBatch /\ [][NextBatchSpec]_vars

----------------------------------------------------------------------------
(* SpecDoc: the loop of translate_readme on every bounded document          *)

DocLines ==
    {Fence, LANG_SWITCHER, Skill("a"), Skill("b"), Dash, TocHeading, H2Heading,
     H1Heading, TocRow, SepRow, FixedRow, Tag, Summary, Para, Empty, Text}

Docs == UNION {[1..n -> DocLines] : n \in 0..MaxDocLines}

\* the same documents ending without a line terminator
DocsNoEol == {[s EXCEPT ![Len(s)] = Stripped(s[Len(s)])] : s \in Docs \ {<<>>}}

\* a mapping that translates "a" and has no entry for "b"
DocTranslations == [d \in {"a"} |-> "zh1"]

InitDoc ==
    /\ MainIdle
    /\ part = PartIdle
    /\ tr \in {[lines |-> s, translations |-> DocTranslations, pos |-> 1, st |-> TrInit] :
                    s \in Docs \cup DocsNoEol}

\* the line the loop is at
CurLine == tr.lines[tr.pos]

\* lines 398-463: one line is processed
ProcessLine ==
    /\ tr.pos <= Len(tr.lines)
    /\ tr' = [tr EXCEPT !.st = LineStep(@, CurLine, tr.translations), !.pos = @ + 1]
    /\ UNCHANGED << mainVars, part >>

NextDoc == ProcessLine

SpecDoc == InitDoc /\ [][NextDoc]_vars

----------------------------------------------------------------------------
(* SpecToc: translate_readme on the table-of-contents heading, one table    *)
(* row and one category summary header, for every bounded row              *)

CategoryNames == {"Gaming", "Moltbook", "Git & GitHub", "Foo & Bar"}

TocAnchor(name) ==
    CASE name = "Gaming" -> "#gaming"
      [] name = "Moltbook" -> "#moltbook"
      [] name = "Git & GitHub" -> "#git--github"
      [] name = "Foo & Bar" -> "#foo--bar"

\* padded cells for every name; a cell already in the emitted form; a cell
\* whose anchor holds "---"; a cell with text after the count; other cells
TocCells ==
    {TocCell(" ", n, TocAnchor(n), " ", "12", " ") : n \in CategoryNames}
    \cup {TocCell("", "Foo & Bar", "#foo--bar", " ", "3", ""),
          TocCell("", "Gaming", "#a---b", "", "7", ""),
          TocCell("", "Moltbook", "#moltbook", " ", "5", " extra"),
          OtherCell(" Location "), OtherCell("---"), OtherCell(" ")}

TocRows == {Row(cs) : cs \in UNION {[1..n -> TocCells] : n \in 1..MaxCells}}

InitToc ==
    /\ MainIdle
    /\ part = PartIdle
    /\ tr \in {[lines |-> <<TocHeading, r, SummaryLine(n)>>,
                translations |-> DocTranslations, pos |-> 1, st |-> TrInit] :
                    r \in TocRows, n \in CategoryNames}

SpecToc == InitToc /\ [][NextDoc]_vars

----------------------------------------------------------------------------
(* SpecPatch: repeated invocations of main() with --patch-readme            *)

\* a line that holds the switcher text between other characters
Embedding == L("text", "see [English](README.md) | [Zhongwen](README_zh.md) here", "")

\* LANG_SWITCHER.strip() in line: the substring test, by table
HoldsSwitcherText(line) == line.a \in {LANG_SWITCHER.a, Embedding.a}

\* the mutant: the presence test never succeeds
ContainsSwitcherNever(content) == FALSE

\* line 472: LANG_SWITCHER.strip() in content (the text has no line break)
ContainsSwitcher(content) == \E k \in DOMAIN content : HoldsSwitcherText(content[k])

\* lines 470-477
patch_readme(content) ==
    IF ContainsSwitcher(content) THEN content
    ELSE <<LANG_SWITCHER, Empty>> \o content

PatchLines == {LANG_SWITCHER, Stripped(LANG_SWITCHER), Embedding, Text, Fence,
               H2Heading, Skill("a")}

PatchDocs == UNION {[1..n -> PatchLines] : n \in 0..MaxDocLines}

InitPatch ==
    /\ readme \in PatchDocs
    /\ file = Absent
    /\ zh_readme = <<>>
    /\ pc = "patch"
    /\ run = 1
    /\ skip_desc = FALSE
    /\ cache = EmptyMap
    /\ loaded = EmptyMap
    /\ batches = <<>>
    /\ i = 0
    /\ calls = <<>>
    /\ desc_translations = EmptyMap
    /\ persisted = EmptyMap
    /\ prev = NoPrev
    /\ part = PartIdle
    /\ tr = TrIdle

\* lines 483-485: one invocation with --patch-readme
PatchReadme ==
    /\ pc = "patch"
    /\ run <= MaxPatches
    /\ readme' = patch_readme(readme)
    /\ run' = run + 1
    /\ UNCHANGED << file, zh_readme, pc, skip_desc, cache, loaded, batches, i, calls,
                    desc_translations, persisted, prev, part, tr >>

NextPatch == PatchReadme

SpecPatch == InitPatch /\ [][NextPatch]_vars

----------------------------------------------------------------------------
(* Properties                                                               *)

Returned == pc \in {"transform", "done"} /\ ~skip_desc

BatchErrors == {n \in DOMAIN calls : calls[n].type = "batch" /\ calls[n].res = "error"}

BatchMisalignments ==
    {n \in DOMAIN calls : /\ calls[n].type = "batch"
                          /\ calls[n].res = "ok"
                          /\ Len(calls[n].parts) # Len(calls[n].text)}

SingleCallsFor(d) == {n \in DOMAIN calls : calls[n].type = "single" /\ calls[n].text = <<d>>}

\* C1: every key of the cache a run loaded has the loaded value in the cache
\* the run works on, in the mapping it returns and in the file it saves,
\* whatever the translator answered.
CacheMonotonic ==
    \A k \in DOMAIN loaded :
        /\ k \in DOMAIN cache /\ cache[k] = loaded[k]
        /\ Returned => /\ k \in DOMAIN desc_translations
                       /\ desc_translations[k] = loaded[k]
                       /\ file.kind = "ok"
                       /\ k \in DOMAIN file.map
                       /\ file.map[k] = loaded[k]

\* a run that loaded an earlier translation of one of its descriptions, had a
\* batch call fail for another one, and saved
CacheMonotonicWitness ==
    /\ pc = "done"
    /\ BatchErrors # {}
    /\ \E d \in Range(AllDescs) :
          d \in DOMAIN loaded /\ loaded[d] = "old" /\ file.map[d] = "old"
    /\ \E d \in Range(AllDescs) : d \notin DOMAIN loaded /\ file.map[d] = d

\* C2: after a translating run over the document has completed, the next
\* translating run over the same document issues no external call and writes
\* the same output.
Idempotent ==
    (prev.end = "done" /\ ~prev.skip /\ ~skip_desc) =>
        /\ calls = <<>>
        /\ pc \notin {"loop", "save", "write"}
        /\ pc = "done" => zh_readme = prev.out

\* the second run is done after a first run that translated and saved
IdempotentWitness ==
    /\ pc = "done" /\ ~skip_desc
    /\ prev.end = "done" /\ ~prev.skip /\ prev.saved
    /\ \E k \in DOMAIN zh_readme :
          zh_readme[k].k = "skill" /\ zh_readme[k].b \in {"zh1", "zh2"}

\* C3: the mapping translate_descriptions returns has an entry for every input
\* description; a cache hit keeps its cached value, a miss is in the returned
\* mapping and in the saved cache.
Coverage ==
    Returned =>
        \A d \in Range(AllDescs) :
            /\ d \in DOMAIN desc_translations
            /\ d \in DOMAIN loaded => desc_translations[d] = loaded[d]
            /\ d \notin DOMAIN loaded =>
                  /\ d \in DOMAIN cache /\ cache[d] = desc_translations[d]
                  /\ file.kind = "ok"
                  /\ d \in DOMAIN file.map
                  /\ file.map[d] = desc_translations[d]

\* a returned mapping with a hit, and a miss whose batch call failed
CoverageWitness ==
    /\ Returned
    /\ BatchErrors # {}
    /\ \E d \in Range(AllDescs) : d \in DOMAIN loaded
    /\ \E d \in Range(AllDescs) : d \notin DOMAIN loaded /\ desc_translations[d] = d

AlignmentFallback ==
    /\ \A n \in BatchMisalignments :
          \A k \in 1..Len(calls[n].text) :
              LET d == calls[n].text[k]
              IN  /\ n + k \in DOMAIN calls
                  /\ calls[n + k].type = "single"
                  /\ calls[n + k].text = <<d>>
                  /\ d \in DOMAIN cache
                  /\ cache[d] = IF calls[n + k].res = "error" THEN d
                                ELSE Strip(calls[n + k].parts[1])
    /\ pc = "aborted" => calls = <<>>

\* a finished run with a misaligned batch of two: one member's own call
\* raised, the other's returned text that differs from the batch answer
AlignmentFallbackWitness ==
    /\ pc = "done"
    /\ \E n \in BatchMisalignments :
          /\ Len(calls[n].text) = 2
          /\ calls[n + 1].res = "error"
          /\ calls[n + 2].res = "ok"
          /\ calls[n + 2].parts[1] # calls[n].parts[1]

RECURSIVE Flatten(_)
Flatten(bs) == IF bs = <<>> THEN <<>> ELSE Head(bs) \o Flatten(Tail(bs))

RECURSIVE Weight(_)
Weight(b) == IF b = <<>> THEN 0 ELSE DescLen(Head(b)) + 1 + Weight(Tail(b))

\* C6: the batches are non-empty, their concatenation is the list of misses,
\* and the sum of (length + 1) over a batch is within MAX_CHARS_PER_BATCH
\* unless the batch is a single string whose own (length + 1) exceeds it.
BatchPartitionCorrect ==
    part.done =>
        LET bs == part.st.batches
        IN  /\ \A k \in DOMAIN bs : bs[k] # <<>>
            /\ Flatten(bs) = part.new_descs
            /\ bs = MakeBatches(part.new_descs)
            /\ \A k \in DOMAIN bs :
                  \/ Weight(bs[k]) <= MAX_CHARS_PER_BATCH
                  \/ Len(bs[k]) = 1 /\ DescLen(bs[k][1]) + 1 > MAX_CHARS_PER_BATCH

\* a partition with a batch of two filled to the budget exactly and an
\* oversized string in a batch of its own
BatchPartitionWitness ==
    /\ part.done
    /\ \E k \in DOMAIN part.st.batches :
          Len(part.st.batches[k]) = 2 /\ Weight(part.st.batches[k]) = MAX_CHARS_PER_BATCH
    /\ \E k \in DOMAIN part.st.batches :
          Len(part.st.batches[k]) = 1 /\ Weight(part.st.batches[k]) > MAX_CHARS_PER_BATCH

\* C7: a fence delimiter line, and a line processed while in_code_block is
\* true, is appended to the output unchanged, whatever it is, and changes
\* nothing else than the fence toggle.
CodeFenceFidelity ==
    [][(tr.pos <= Len(tr.lines) /\ tr'.pos = tr.pos + 1
            /\ (IsFence(CurLine) \/ tr.st.in_code_block))
        => /\ tr'.st.out = Append(tr.st.out, CurLine)
           /\ tr'.st.in_toc = tr.st.in_toc
           /\ tr'.st.in_code_block = (tr.st.in_code_block # IsFence(CurLine))]_vars

\* inside a fence a catalog entry with a translation, the switcher line and the
\* table-of-contents heading were emitted as they are
CodeFenceWitness ==
    /\ tr.pos = 4
    /\ tr.lines[1] = Fence
    /\ tr.lines[2] \in {Skill("a"), LANG_SWITCHER, TocHeading}
    /\ tr.lines[3] = Fence
    /\ tr.st.out = tr.lines
    /\ ~tr.st.in_code_block

\* C8 as stated: under in_toc, a line processed outside a code fence that is
\* non-empty, starts with neither "|" nor "<" and is not the
\* table-of-contents heading leaves in_toc false.
TocExit ==
    [][(tr.pos <= Len(tr.lines) /\ tr'.pos = tr.pos + 1
            /\ tr.st.in_toc /\ ~tr.st.in_code_block /\ ~IsFence(CurLine)
            /\ ~IsEmpty(CurLine) /\ ~StartsPipe(CurLine) /\ ~StartsTag(CurLine)
            /\ ~SameText(CurLine, TocHeading))
        => ~tr'.st.in_toc]_vars

\* C9 as stated: loading the cache never ends the run, whatever the file holds.
LoadNeverAborts == pc # "aborted"

\* C10 as stated: after a crash the cache file still holds every entry the
\* last completed save had written.
CrashSafeSave ==
    pc = "crashed" =>
        \A d \in DOMAIN persisted :
            file.kind = "ok" /\ d \in DOMAIN file.map /\ file.map[d] = persisted[d]

\* the row of a SpecToc document has cells the cell rule is applied to
RowTranslated == \A k \in DOMAIN tr.lines[2].cells : ~CellHasDashes(tr.lines[2].cells[k])

\* C11: for every category name, the label the table-of-contents cell rule
\* emits and the label the summary header rule emits are the same: the
\* dictionary's value for the name, or the name when the dictionary has none.
CategoryConsistent ==
    (tr.pos = 4 /\ RowTranslated) =>
        \A k \in DOMAIN tr.lines[2].cells :
            LET cell == tr.lines[2].cells[k]
                name == tr.lines[3].a
            IN  (CellMatch(cell) /\ cell.name = name) =>
                    /\ tr.st.out[2].cells[k].name = tr.st.out[3].b
                    /\ tr.st.out[3].b = IF name \in DOMAIN CATEGORY_MAP
                                        THEN CATEGORY_MAP[name] ELSE name

\* "Git & GitHub" in a cell and in a summary header, both emitted with the
\* dictionary's label
CategoryConsistentWitness ==
    /\ tr.pos = 4
    /\ Len(tr.lines) = 3
    /\ tr.lines[3] = SummaryLine("Git & GitHub")
    /\ \E k \in DOMAIN tr.lines[2].cells :
          /\ tr.lines[2].cells[k].name = "Git & GitHub"
          /\ tr.st.out[2].cells[k].name = "Git yu GitHub"
    /\ tr.st.out[3].b = "Git yu GitHub"

\* a step of the loop that processes the current line outside a code fence
StepOutsideFence ==
    /\ tr.pos <= Len(tr.lines)
    /\ tr'.pos = tr.pos + 1
    /\ ~tr.st.in_code_block
    /\ ~IsFence(CurLine)

\* the step appended exactly one line to the output
EmittedOne == Len(tr'.st.out) = Len(tr.st.out) + 1

\* the line the step appended
Emitted == tr'.st.out[Len(tr'.st.out)]

\* C12: for a catalog entry line processed outside a code fence the display
\* part is emitted as it is; the description is replaced by the mapping's value
\* exactly when the description is a key of the mapping, and otherwise the
\* whole line is emitted unchanged.
CatalogEntryRule ==
    [][(StepOutsideFence /\ SkillMatch(CurLine))
        => /\ EmittedOne
           /\ Emitted.k = "skill"
           /\ Emitted.a = CurLine.a
           /\ IF CurLine.b \in DOMAIN tr.translations
              THEN Emitted.b = tr.translations[CurLine.b]
              ELSE Emitted = CurLine]_vars

\* an entry with a translation was rewritten and an entry without one, the
\* unterminated last line, was kept
CatalogEntryWitness ==
    /\ tr.pos = 3
    /\ tr.lines = <<Skill("a"), Stripped(Skill("b"))>>
    /\ tr.st.out = <<L("skill", "- [n](u)", "zh1"), Stripped(Skill("b"))>>

\* the current line falls under none of the rewriting rules
Unrecognized ==
    /\ ~SkillMatch(CurLine)
    /\ ~InHeadingMap(CurLine)
    /\ ~(tr.st.in_toc /\ StartsPipe(CurLine))
    /\ ~SummaryMatch(CurLine)
    /\ ~ParaMatch(CurLine)

\* C13 as stated: every line outside a code fence that no rule recognizes is
\* emitted as it is, and every input line gives one output line.
UnrecognizedVerbatim ==
    [][(tr.pos <= Len(tr.lines) /\ tr'.pos = tr.pos + 1)
        => /\ EmittedOne
           /\ (StepOutsideFence /\ Unrecognized) => Emitted = CurLine]_vars

\* C13 as amended: a locale-switcher line outside a code fence is dropped;
\* every other input line gives one output line, and the line is emitted as it
\* is when no rule recognizes it.
UnrecognizedVerbatimButSwitcher ==
    [][(tr.pos <= Len(tr.lines) /\ tr'.pos = tr.pos + 1)
        => IF StepOutsideFence /\ IsSwitcher(CurLine)
           THEN tr'.st.out = tr.st.out
           ELSE /\ EmittedOne
                /\ tr'.st.out = Append(tr.st.out, Emitted)
                /\ (StepOutsideFence /\ Unrecognized) => Emitted = CurLine]_vars

\* the switcher line was dropped, an empty line and an unterminated last line
\* of plain text were emitted as they are
UnrecognizedWitness ==
    /\ tr.pos = 4
    /\ tr.lines = <<LANG_SWITCHER, Empty, Stripped(Text)>>
    /\ tr.st.out = <<Empty, Stripped(Text)>>

\* a row with a "---" cell
SeparatorRow(row) == \E k \in DOMAIN row.cells : row.cells[k] = OtherCell("---")

\* the cell is "[name](#anchor) (count)", with white space around it at most
OfTocForm(cell) == CellMatch(cell) /\ cell.rest \in {"", " "}

\* C14 as stated: in a table row processed under in_toc every cell of the form
\* [name](#anchor) (count) is emitted with the same anchor and count and with
\* the name's category label; every other cell, and every separator row, is
\* emitted unchanged.
TocRowRule ==
    (tr.pos >= 3 /\ StartsPipe(tr.lines[2])) =>
        IF SeparatorRow(tr.lines[2])
        THEN tr.st.out[2] = tr.lines[2]
        ELSE /\ DOMAIN tr.st.out[2].cells = DOMAIN tr.lines[2].cells
             /\ \A k \in DOMAIN tr.lines[2].cells :
                   LET cell == tr.lines[2].cells[k]
                       o == tr.st.out[2].cells[k]
                   IN  IF OfTocForm(cell)
                       THEN /\ CellMatch(o)
                            /\ o.anchor = cell.anchor
                            /\ o.count = cell.count
                            /\ o.name = CategoryLabel(cell.name)
                       ELSE o = cell

\* the lines of README_zh.md after the two header lines
Body(zh) == SubSeq(zh, 3, Len(zh))

\* what a translating run with a translation for every description writes
FullyTranslated == Output(translate_readme(readme, [d \in ReadmeDescs |-> "zh1"]))

\* C15: with description translation disabled the run loads no cache, issues
\* no external call and saves no cache (so it cannot fail on the cache file);
\* every catalog entry line is written with its original description and every
\* other line as a translating run writes it.
SkipMode ==
    [][skip_desc' =>
          /\ file' = file
          /\ calls' = <<>>
          /\ cache' = EmptyMap /\ loaded' = EmptyMap /\ desc_translations' = EmptyMap
          /\ pc' \in {"transform", "done", "crashed"}
          /\ pc' = "done" =>
                /\ Len(zh_readme') = Len(FullyTranslated)
                /\ \A k \in DOMAIN readme :
                      IF SkillMatch(readme[k])
                      THEN Body(zh_readme')[k] = readme[k]
                      ELSE Body(zh_readme')[k] = Body(FullyTranslated)[k]]_vars

\* a finished run in skip mode beside a cache file that has a translation for
\* the entry it wrote untranslated, after a heading it did translate
SkipModeWitness ==
    /\ pc = "done" /\ skip_desc
    /\ readme = <<H2Heading, Skill("a")>>
    /\ file.kind = "ok" /\ "a" \in DOMAIN file.map
    /\ Body(zh_readme) = <<L("heading_zh", "## Anzhuang", ""), Skill("a")>>

\* C16: applying the patch operation to a document that already holds the
\* switcher changes nothing, so every application after the first leaves the
\* document as the first application left it.
PatchIdempotent ==
    [][(ContainsSwitcher(readme) \/ run > 1) => readme' = readme]_vars

\* a document without the switcher after three applications: the switcher
\* line and the blank line were inserted once
PatchIdempotentWitness ==
    /\ pc = "patch" /\ run = 4
    /\ readme = <<LANG_SWITCHER, Empty, H2Heading, Text>>

\* the batch calls issued so far in this run
BatchCalls == SelectSeq(calls, LAMBDA c : c.type = "batch")

\* C17: the cache file changes only in the one save that follows the last
\* batch, whatever the batches' outcomes were, and a run with a cache miss that
\* reaches the transformation has saved its cache; a run without a cache miss
\* returns the loaded cache with no call and no write; a run interrupted
\* between batches leaves the file as it was loaded.
CachePersistencePoint ==
    [][/\ pc \notin {"save", "write"} => file' = file
       /\ pc' = "save" => /\ pc = "loop"
                          /\ i' = Len(batches) + 1
                          /\ Len(BatchCalls') = Len(batches)
       /\ pc' = "write" => pc = "save"
       /\ pc' = "loop" => pc \in {"start", "loop"} /\ i' <= Len(batches')
       /\ (pc' = "transform" /\ batches' # <<>>) =>
              /\ pc = "write"
              /\ file' = Ok(cache')
              /\ desc_translations' = cache'
       /\ (pc' = "transform" /\ batches' = <<>> /\ ~skip_desc') =>
              /\ NewDescs(AllDescs, LoadCache(file)) = <<>>
              /\ desc_translations' = LoadCache(file)
              /\ calls' = <<>>
              /\ file' = file
       /\ (pc = "start" /\ pc' = "loop") => NewDescs(AllDescs, LoadCache(file)) # <<>>
       /\ (pc = "loop" /\ pc' = "crashed") =>
              ~LoadRaises(file') /\ LoadCache(file') = loaded']_vars

\* two batches, the first failed and the second answered, and the cache file
\* holds both results after the save
CachePersistenceWitness ==
    /\ pc = "transform" /\ ~skip_desc
    /\ batches = << <<"b">>, <<"d">> >>
    /\ Len(calls) = 2 /\ calls[1].res = "error" /\ calls[2].res = "ok"
    /\ loaded = EmptyMap
    /\ file = Ok(cache) /\ DOMAIN cache = {"b", "d"}

\* the calls so far: batch calls are the batches in partition order, one per
\* batch up to the loop index; a single call follows a misaligned batch answer
\* and is for the member at its position; no description is called for singly
\* twice; no call holds a description of the loaded cache
DispatchOrder ==
    /\ Len(BatchCalls) = (IF i = 0 THEN 0 ELSE i - 1)
    /\ Len(BatchCalls) <= Len(batches)
    /\ \A k \in DOMAIN BatchCalls : BatchCalls[k].text = batches[k]
    /\ \A n \in DOMAIN calls :
          calls[n].type = "single" =>
              \E m \in BatchMisalignments :
                  /\ m < n /\ n - m <= Len(calls[m].text)
                  /\ calls[n].text = <<calls[m].text[n - m]>>
    /\ \A d \in Descs : Cardinality(SingleCallsFor(d)) <= 1
    /\ \A n \in DOMAIN calls : Range(calls[n].text) \cap DOMAIN loaded = {}

\* each pass of the loop moves to the next batch, and the loop is left after
\* the last one
LoopAdvances ==
    pc = "loop" /\ pc' \in {"loop", "save"} =>
        /\ i \in 1..Len(batches)
        /\ i' = i + 1
        /\ Len(calls') > Len(calls)
        /\ pc' = "save" <=> i = Len(batches)

\* C18: translate_descriptions leaves its loop whatever each call does; the
\* batches are dispatched one after another in partition order, one batch call
\* each; single calls are made only for the members of a batch whose answer
\* was misaligned, once per member; no call is made for a description that was
\* in the loaded cache.
BoundedDispatch ==
    /\ []DispatchOrder
    /\ [][LoopAdvances]_vars
    /\ (pc = "loop") ~> (pc # "loop")

\* a run that had "a" in the loaded cache and made, for the one new
\* description, a batch call with a misaligned answer and then a single call
BoundedDispatchWitness ==
    /\ pc = "transform"
    /\ DOMAIN loaded = {"a"}
    /\ readme = <<Skill("a"), Skill("b")>>
    /\ Len(calls) = 2
    /\ calls[1].type = "batch" /\ calls[1].text = <<"b">> /\ 1 \in BatchMisalignments
    /\ calls[2].type = "single" /\ calls[2].text = <<"b">>

\* C19: a table row outside a code fence goes to the table-of-contents row
\* rule exactly when in_toc is true at that point, and is then not matched
\* against the fixed patterns; with in_toc false it gets the replacement of the
\* fixed pattern it matches or is emitted as it is.  in_toc is left as it was.
ContextSensitiveRows ==
    [][(StepOutsideFence /\ StartsPipe(CurLine))
        => /\ EmittedOne
           /\ tr'.st.in_toc = tr.st.in_toc
           /\ IF tr.st.in_toc
              THEN /\ Emitted = Terminated(translate_toc_line(Stripped(CurLine)))
                   /\ Emitted.k = "row"
                   /\ Emitted # ParaReplacement(CurLine)
              ELSE IF ParaMatch(CurLine)
              THEN Emitted = ParaReplacement(CurLine)
              ELSE Emitted = CurLine]_vars

\* the fixed table header before the table of contents got its replacement,
\* the same row inside the table of contents was kept, and a category row
\* inside it was translated
ContextSensitiveWitness ==
    /\ tr.lines = <<FixedRow, TocHeading, FixedRow>>
    /\ tr.pos = 4
    /\ tr.st.out[1] = ParaReplacement(FixedRow)
    /\ tr.st.out[3] = FixedRow
    /\ tr.st.in_toc

\* line k of README.md is a line translate_readme treats as a catalog entry:
\* SKILL_RE matches it and it is reached with in_code_block false
EntryAt(k) ==
    /\ SkillMatch(readme[k])
    /\ ~TrLoop(TrInit, SubSeq(readme, 1, k - 1), EmptyMap, 1).in_code_block

\* the first line of README.md that is a catalog entry with description d
FirstEntry(d) ==
    CHOOSE k \in DOMAIN readme :
        /\ EntryAt(k) /\ readme[k].b = d
        /\ \A j \in 1..(k - 1) : ~(EntryAt(j) /\ readme[j].b = d)

\* C20: the list main hands to translate_descriptions holds exactly the
\* descriptions of the lines the transformer treats as catalog entries, each
\* once, in the order of their first occurrence.
DescriptionCollection ==
    (pc \in {"loop", "save", "write", "transform", "done"} /\ ~skip_desc) =>
        /\ Range(AllDescs) = {readme[k].b : k \in {j \in DOMAIN readme : EntryAt(j)}}
        /\ \A p, q \in DOMAIN AllDescs :
              p < q => /\ AllDescs[p] # AllDescs[q]
                       /\ FirstEntry(AllDescs[p]) < FirstEntry(AllDescs[q])

\* the descriptions whose translation failed in this run: the members of a
\* batch whose call raised and the members whose own call raised
FailedDescs ==
    {d \in Descs :
        \/ \E n \in BatchErrors : d \in Range(calls[n].text)
        \/ \E n \in SingleCallsFor(d) : calls[n].res = "error"}

\* the entries of the loaded cache whose value is the description itself
Fallbacks == {d \in DOMAIN loaded : loaded[d] = d}

\* C21: a description whose translation failed is in the cache with itself as
\* value, and in the file once the run has saved; a run that loads such an
\* entry issues no call that holds the description, keeps the entry in the
\* cache, in the mapping it returns and in the file, and writes the catalog
\* entries with that description untranslated.
StickyFallback ==
    /\ \A d \in FailedDescs :
          /\ d \in DOMAIN cache /\ cache[d] = d
          /\ Returned => /\ file.kind = "ok"
                         /\ d \in DOMAIN file.map /\ file.map[d] = d
                         /\ d \in DOMAIN desc_translations /\ desc_translations[d] = d
    /\ \A d \in Fallbacks :
          /\ \A n \in DOMAIN calls : d \notin Range(calls[n].text)
          /\ d \in DOMAIN cache /\ cache[d] = d
          /\ Returned => /\ file.kind = "ok"
                         /\ d \in DOMAIN file.map /\ file.map[d] = d
                         /\ d \in DOMAIN desc_translations /\ desc_translations[d] = d
          /\ (pc = "done" /\ ~skip_desc) =>
                \A k \in DOMAIN readme :
                    (SkillMatch(readme[k]) /\ readme[k].b = d) =>
                        Body(zh_readme)[k] = readme[k]

\* the second run on a document with two entries, after a first run that
\* saved a cache in which "b" had failed and "d" was translated: no call was
\* issued and the entry with "b" was written untranslated
StickyFallbackWitness ==
    /\ run = 2 /\ pc = "done" /\ ~skip_desc
    /\ prev.end = "done" /\ prev.saved
    /\ readme = <<Skill("b"), Skill("d")>>
    /\ Fallbacks = {"b"}
    /\ "d" \in DOMAIN loaded /\ loaded["d"] # "d"
    /\ calls = <<>>
    /\ Body(zh_readme)[1] = Skill("b")
    /\ Body(zh_readme)[2] # Skill("d")

====
